---- MODULE Spec2Model ----
(***************************************************************************)
(* A model of aess.py, the AESS exoplanet dashboard (a Streamlit script).  *)
(*                                                                         *)
(* Several specifications share the module:                                *)
(*   Spec        the dashboard: browser sessions rerunning the script,     *)
(*               st.session_state, the two st.cache_data stores, the clock *)
(*   SpecNorm    fetch_exoplanet_data and _clean_data applied to every     *)
(*               bounded reply of the catalog service                      *)
(*   SpecFilter  the Encyclopedia page's widgets and filter applied to     *)
(*               every bounded dataset and widget input                    *)
(*   SpecSim     the transit light curve simulator and its five sliders    *)
(*                                                                         *)
(* A DataFrame is a record [cols, rows]: the set of its column names and   *)
(* the sequence of its rows.  A cell is a record whose field k says what   *)
(* pandas holds there: "nan" (missing), "str", "num" (a float or integer   *)
(* column value), "int" (an int64 after astype(int)), "inf", and "absent"  *)
(* for a column the frame does not have.  Text is a sequence of            *)
(* one-character strings.  A float of the simulator is an exact rational   *)
(* <<numerator, denominator>> in lowest terms, denominator positive.       *)
(***************************************************************************)
EXTENDS Integers, Sequences, FiniteSets, TLC

VARIABLES
    now,            \* wall clock, seconds
    ticks,          \* number of clock advances so far (bounds the run)
    cache_exo,      \* st.cache_data store of fetch_exoplanet_data
    cache_apod,     \* st.cache_data store of fetch_nasa_apod
    session_state,  \* st.session_state of every browser session
    view,           \* the last script run of every session: when, what it showed
    http_gets,      \* HTTP GETs issued so far, per remote service
    resp,           \* SpecNorm: the catalog service's reply
    result,         \* SpecNorm: what fetch_exoplanet_data returned for resp
    cleaned,        \* SpecNorm: what _clean_data returned for resp's table
    search_out,     \* SpecNorm: the last call of search_planet_directly
    rng,            \* the state of numpy's global random generator
    planet_radius,  \* SpecSim: slider, Earth radii
    orbital_period, \* SpecSim: slider, days
    impact_param,   \* SpecSim: slider
    star_radius,    \* SpecSim: slider, solar radii
    inclination,    \* SpecSim: slider, degrees
    light_curve,    \* SpecSim: the (time, flux) samples of the last run
    exoplanet_df,   \* SpecFilter: the dataset the page reads
    methods,        \* SpecFilter: the multiselect's value
    search_planet,  \* SpecFilter: the text input's value
    year_range,     \* SpecFilter: the slider's value
    page_out,       \* SpecFilter: the outcome of the last Encyclopedia run
    viz_df          \* SpecFilter: the frame the last Visualizations run charted

sysVars == <<now, ticks, cache_exo, cache_apod, session_state, view, http_gets>>
normVars == <<resp, result, cleaned, search_out>>
simVars == <<planet_radius, orbital_period, impact_param, star_radius, inclination,
             light_curve>>
filterVars == <<exoplanet_df, methods, search_planet, year_range, page_out, viz_df>>
vars == <<sysVars, normVars, filterVars, simVars, rng>>

-----------------------------------------------------------------------------
(* Cells and text *)

NaN == [k |-> "nan"]
Inf == [k |-> "inf"]
Absent == [k |-> "absent"]
Str(s) == [k |-> "str", s |-> s]
Num(v) == [k |-> "num", v |-> v]
IntC(v) == [k |-> "int", v |-> v]

Digits == <<"0", "1", "2", "3", "4", "5", "6", "7", "8", "9">>

IsDigit(c) == \E i \in 1..10 : Digits[i] = c

DigitVal(c) == (CHOOSE i \in 1..10 : Digits[i] = c) - 1

RECURSIVE ParseDigits(_)
ParseDigits(s) ==
    IF s = <<>> THEN 0
    ELSE 10 * ParseDigits(SubSeq(s, 1, Len(s) - 1)) + DigitVal(s[Len(s)])

\* float("...") of a text cell, as pd.to_numeric tries it: digits parse
IsNumericText(s) == s # <<>> /\ \A i \in 1..Len(s) : IsDigit(s[i])

\* datetime.now().year
CurrentYear == 2026

-----------------------------------------------------------------------------
(* NASADataFetcher._clean_data *)

numeric_cols == {"pl_rade"}

AllCols == {"pl_name", "hostname", "discoverymethod", "disc_year", "pl_rade"}

\* a to_numeric that puts 0 where the value does not parse
to_numeric_zero(c) ==
    CASE c.k = "num" -> c
      [] c.k = "int" -> Num(c.v)
      [] c.k = "inf" -> c
      [] c.k = "str" -> IF IsNumericText(c.s) THEN Num(ParseDigits(c.s)) ELSE Num(0)
      [] OTHER -> IF c.k = "nan" THEN Num(0) ELSE c

\* pd.to_numeric(x, errors="coerce") on one cell
to_numeric(c) ==
    CASE c.k = "num" -> c
      [] c.k = "int" -> Num(c.v)
      [] c.k = "inf" -> c
      [] c.k = "str" -> IF IsNumericText(c.s) THEN Num(ParseDigits(c.s)) ELSE NaN
      [] OTHER -> c

\* .fillna(datetime.now().year) on one cell
fillna_year(c) == IF c.k = "nan" THEN Num(CurrentYear) ELSE c

\* .astype(int) raises on a non-finite value
astype_int_raises(c) == c.k \in {"inf", "nan"}

astype_int(c) == IF c.k = "num" THEN IntC(c.v) ELSE c

MapRows(rows, F(_)) == [i \in 1..Len(rows) |-> F(rows[i])]

\* lines 124-127
CoerceNumeric(df, row) ==
    [c \in AllCols |->
        IF c \in numeric_cols /\ c \in df.cols THEN to_numeric(row[c]) ELSE row[c]]

\* line 130
CoerceYear(row) == [row EXCEPT !["disc_year"] = to_numeric(@)]

\* line 131
FillYear(row) == [row EXCEPT !["disc_year"] = astype_int(fillna_year(@))]

\* df.dropna(subset=["pl_name", "hostname"]): the rows it keeps
dropna_keeps(row) == row["pl_name"].k # "nan" /\ row["hostname"].k # "nan"

Ok(df) == [raised |-> FALSE, exc |-> "none", df |-> df]
Raise(e) == [raised |-> TRUE, exc |-> e, df |-> [cols |-> {}, rows |-> <<>>]]

clean_data(df) ==
    LET r1 == MapRows(df.rows, LAMBDA row : CoerceNumeric(df, row))
        hasYear == "disc_year" \in df.cols
        r2 == IF hasYear THEN MapRows(r1, CoerceYear) ELSE r1
        yearFails == hasYear /\ \E i \in 1..Len(r2) :
                        astype_int_raises(fillna_year(r2[i]["disc_year"]))
        r3 == IF hasYear THEN MapRows(r2, FillYear) ELSE r2
    IN  IF yearFails THEN Raise("IntCastingNaNError")
        ELSE IF ~({"pl_name", "hostname"} \subseteq df.cols) THEN Raise("KeyError")
        ELSE Ok([cols |-> df.cols, rows |-> SelectSeq(r3, dropna_keeps)])

-----------------------------------------------------------------------------
(* NASADataFetcher._generate_sample_data *)

SEED == 42

\* numpy's global generator when the process starts: seeded from the
\* operating system's entropy, nothing drawn yet
FreshRng == [seeded |-> FALSE, seed |-> 0, pos |-> 0]

\* a call that leaves the generator as it finds it
seed_skipped(g) == g

\* np.random.seed(42)
seed(g) == [seeded |-> TRUE, seed |-> SEED, pos |-> 0]

\* np.random.seed(42); np.random.normal(0, 1, 10), in units of 1e-4: the
\* first ten draws, which jitter pl_rade (the first column of the loop)
Randn42 == <<4967, -1383, 6477, 15230, -2342, -2341, 15792, 7674, -4695, 5426>>

\* a sample row whose host star is left blank
SampleRowBlankHost(name, host, method, year, rade) ==
    [pl_name |-> Str(name), hostname |-> Str(<<>>), discoverymethod |-> Str(method),
     disc_year |-> IntC(year), pl_rade |-> Num(rade)]

\* one row of sample_data; rade is pl_rade in hundredths of an Earth radius
SampleRow(name, host, method, year, rade) ==
    [pl_name |-> Str(name), hostname |-> Str(host), discoverymethod |-> Str(method),
     disc_year |-> IntC(year), pl_rade |-> Num(rade)]

sample_data ==
    << SampleRow(<<"T","R","A","P","P","I","S","T","-","1","e">>,
                 <<"T","R","A","P","P","I","S","T","-","1">>,
                 <<"T","r","a","n","s","i","t">>, 2017, 92),
       SampleRow(<<"T","R","A","P","P","I","S","T","-","1","f">>,
                 <<"T","R","A","P","P","I","S","T","-","1">>,
                 <<"T","r","a","n","s","i","t">>, 2017, 104),
       SampleRow(<<"T","R","A","P","P","I","S","T","-","1","g">>,
                 <<"T","R","A","P","P","I","S","T","-","1">>,
                 <<"T","r","a","n","s","i","t">>, 2017, 113),
       SampleRow(<<"K","e","p","l","e","r","-","1","8","6","f">>,
                 <<"K","e","p","l","e","r","-","1","8","6">>,
                 <<"T","r","a","n","s","i","t">>, 2014, 117),
       SampleRow(<<"P","r","o","x","i","m","a"," ","C","e","n"," ","b">>,
                 <<"P","r","o","x","i","m","a"," ","C","e","n","t","a","u","r","i">>,
                 <<"R","a","d","i","a","l"," ","V","e","l","o","c","i","t","y">>, 2016, 130),
       SampleRow(<<"G","J"," ","6","6","7"," ","C"," ","c">>,
                 <<"G","J"," ","6","6","7"," ","C">>,
                 <<"R","a","d","i","a","l"," ","V","e","l","o","c","i","t","y">>, 2011, 154),
       SampleRow(<<"H","D"," ","2","0","9","4","5","8"," ","b">>,
                 <<"H","D"," ","2","0","9","4","5","8">>,
                 <<"T","r","a","n","s","i","t">>, 1999, 1480),
       SampleRow(<<"K","e","p","l","e","r","-","2","2","b">>,
                 <<"K","e","p","l","e","r","-","2","2">>,
                 <<"T","r","a","n","s","i","t">>, 2011, 210),
       SampleRow(<<"G","J"," ","1","2","1","4"," ","b">>,
                 <<"G","J"," ","1","2","1","4">>,
                 <<"T","r","a","n","s","i","t">>, 2009, 268),
       SampleRow(<<"5","5"," ","C","n","c"," ","e">>,
                 <<"5","5"," ","C","n","c">>,
                 <<"R","a","d","i","a","l"," ","V","e","l","o","c","i","t","y">>, 2004, 195) >>

\* the i-th value np.random.normal draws from generator state g: known for
\* the stream of seed 42, otherwise only named by its place in its stream
normal(g, i) ==
    IF g.seeded /\ g.seed = SEED /\ g.pos + i <= Len(Randn42)
    THEN [known |-> TRUE, v |-> Randn42[g.pos + i]]
    ELSE [known |-> FALSE, v |-> <<g.seeded, g.seed, g.pos + i>>]

\* df[col] * (1 + np.random.normal(0, 0.1, len(df))): pl_rade in units of 1e-7
Jitter(rows) ==
    [i \in 1..Len(rows) |->
        [rows[i] EXCEPT !["pl_rade"] =
            IF normal(seed(rng), i).known
            THEN Num(@.v * (100000 + normal(seed(rng), i).v))
            ELSE Num(<<@.v, normal(seed(rng), i).v>>)]]

\* the frame a call made in the current generator state returns
generate_sample_data == [cols |-> AllCols, rows |-> Jitter(sample_data)]

\* the generator after the call: three columns of len(df) draws each
RngAfterSample ==
    [seed(rng) EXCEPT !.pos = @ + 3 * Len(sample_data)]

-----------------------------------------------------------------------------
(* NASADataFetcher, fetch_exoplanet_data, fetch_nasa_apod *)

\* a class whose constructor assigns self.url
HasUrlAttrIfInitRan == TRUE

\* NASADataFetcher(): Python runs __init__, and the class defines only _init_,
\* so the instance never gets the attribute url
HasUrlAttr == FALSE

\* requests.exceptions.RequestException and its subclasses
RequestExceptions == {"ConnectionError", "Timeout", "HTTPError"}

\* what reached the except clauses of fetch_exoplanet_data
CaughtAsRequestException(e) == e \in RequestExceptions

\* an `except` clause that lets everything through
CaughtAsExceptionNever(e) == FALSE

\* `except Exception`: every exception the body can raise is one
CaughtAsException(e) == TRUE

\* the replies of the catalog service to the GET
CatalogFailureKinds == {"conn_error", "timeout", "http_error", "unparsable", "empty_body"}

\* requests.get ... pd.read_csv, lines 74-76: the frame read, or the exception
ReadCatalog(rsp) ==
    IF ~HasUrlAttr THEN Raise("AttributeError")
    ELSE CASE rsp.kind = "conn_error" -> Raise("ConnectionError")
           [] rsp.kind = "timeout" -> Raise("Timeout")
           [] rsp.kind = "http_error" -> Raise("HTTPError")
           [] rsp.kind = "unparsable" -> Raise("ParserError")
           [] rsp.kind = "empty_body" -> Raise("EmptyDataError")
           [] OTHER -> Ok(rsp.table)

\* the outcome of a call: the value returned or the exception that escaped,
\* whether the GET went out, the st.* messages written, and (not part of the
\* DataFrame) which provider made the value
Outcome(raised, exc, df, prov, get, msgs) ==
    [raised |-> raised, exc |-> exc, df |-> df, prov |-> prov, get |-> get, msgs |-> msgs]

Fallback(get, msg) ==
    Outcome(FALSE, "none", generate_sample_data, "fallback", get, {msg, "info_sample"})

fetch_exoplanet_data(rsp) ==
    LET rd == ReadCatalog(rsp)
        get == HasUrlAttr
        body == IF rd.raised THEN rd
                ELSE IF rd.df.rows = <<>> THEN Ok(rd.df)
                ELSE clean_data(rd.df)
    IN  IF ~body.raised
        THEN IF rd.df.rows = <<>>
             THEN Fallback(get, "warning_no_data")
             ELSE Outcome(FALSE, "none", body.df, "remote", get, {})
        ELSE IF CaughtAsRequestException(body.exc) THEN Fallback(get, "error_network")
        ELSE IF CaughtAsException(body.exc) THEN Fallback(get, "error_processing")
        ELSE Outcome(TRUE, body.exc, body.df, "none", get, {})

\* the f-string of lines 94-103: the query text as a sequence of pieces.  The
\* quote and percent characters and the characters of the term are pieces
\* of their own; the text between them is kept in one piece each.
AdqlQuery(search_term) ==
    <<"SELECT ... FROM pscomppars WHERE LOWER(pl_name) LIKE LOWER(", "'", "%">>
        \o search_term
        \o <<"%", "'", ") OR LOWER(hostname) LIKE LOWER(", "'", "%">>
        \o search_term
        \o <<"%", "'", ") ORDER BY pl_name">>

\* pd.DataFrame()
EmptyFrame == [cols |-> {}, rows |-> <<>>]

\* lines 91-115: the query is built, then the GET is attempted; every
\* exception ends in st.error and an empty frame
search_planet_directly(search_term, rsp) ==
    LET rd == ReadCatalog(rsp)
    IN  [term |-> search_term,
         query |-> AdqlQuery(search_term),
         get |-> HasUrlAttr,
         raised |-> FALSE,
         df |-> IF rd.raised THEN EmptyFrame ELSE rd.df,
         msgs |-> IF rd.raised THEN {"error_search"} ELSE {}]

\* the replies of the daily-image service
ApodFailureKinds == {"conn_error", "timeout", "non200", "bad_json"}
ApodResponses == ApodFailureKinds \cup {"image", "video"}

None == [k |-> "None"]

\* `except Exception` of fetch_nasa_apod
ApodCaught(e) == TRUE

\* lines 172-185
fetch_nasa_apod(kind) ==
    LET exc == CASE kind = "conn_error" -> "ConnectionError"
                 [] kind = "timeout" -> "Timeout"
                 [] kind = "bad_json" -> "JSONDecodeError"
                 [] OTHER -> "none"
    IN  IF exc # "none"
        THEN IF ApodCaught(exc)
             THEN [raised |-> FALSE, exc |-> "none", val |-> None, msgs |-> {"warning_apod"}]
             ELSE [raised |-> TRUE, exc |-> exc, val |-> None, msgs |-> {}]
        ELSE IF kind = "non200"
             THEN [raised |-> FALSE, exc |-> "none", val |-> None, msgs |-> {"warning_status"}]
             ELSE [raised |-> FALSE, exc |-> "none",
                   val |-> [k |-> "dict", media_type |-> kind], msgs |-> {}]

-----------------------------------------------------------------------------
(* Bounded inputs: the replies of the two remote services *)

MaxRows == 2

NameCells == {NaN, Str(<<"a">>), Str(<<"b">>)}
HostCells == {NaN, Str(<<"h">>)}
YearCells == {Num(1995), Str(<<"2", "0", "1", "4">>), Str(<<"x">>), NaN, Inf}
RadeCells == {Num(2), Str(<<"x">>), NaN}

\* the column sets a parsed reply can have: the queried ones, or one missing
CsvShapes == {AllCols, AllCols \ {"disc_year"}, AllCols \ {"pl_rade"},
              AllCols \ {"hostname"}}

CellsOf(col, cells, cols) == IF col \in cols THEN cells ELSE {Absent}

\* how many cells of a row are not the plain ones
Oddness(r) ==
    (IF r.pl_name = NaN THEN 1 ELSE 0) + (IF r.hostname = NaN THEN 1 ELSE 0)
        + (IF r.disc_year \in {Num(1995), Absent} THEN 0 ELSE 1)
        + (IF r.pl_rade \in {Num(2), Absent} THEN 0 ELSE 1)

\* the rows pd.read_csv can deliver for a column set: at most two cells of a
\* row are missing or unusual
RawRows(cols) ==
    LET all == [pl_name : NameCells,
                hostname : CellsOf("hostname", HostCells, cols),
                discoverymethod : {Str(<<"T">>)},
                disc_year : CellsOf("disc_year", YearCells, cols),
                pl_rade : CellsOf("pl_rade", RadeCells, cols)]
    IN  {r \in all : Oddness(r) <= 2 /\ (r.pl_name = Str(<<"b">>) => Oddness(r) = 0)}

NoTable == [cols |-> {}, rows |-> <<>>]

\* the replies before any row of a CSV body is written
CatalogResponses ==
    {[kind |-> k, table |-> NoTable] : k \in CatalogFailureKinds}
        \cup {[kind |-> "csv", table |-> [cols |-> cs, rows |-> <<>>]] : cs \in CsvShapes}

ApodReplies == {[kind |-> "apod", apod |-> k] : k \in ApodResponses}

\* what the user types into the Planet Search box
MaxTerm == 2
TermChars == {"a", "'", "%"}

\* the replies a search is tried against have at most this many rows
MaxSearchRows == 1

Pending == [k |-> "pending"]

-----------------------------------------------------------------------------
(* SpecNorm: the loading functions applied to one reply *)

SysIdle ==
    /\ now = 0
    /\ ticks = 0
    /\ cache_exo = Pending
    /\ cache_apod = Pending
    /\ session_state = Pending
    /\ view = Pending
    /\ http_gets = Pending

FilterIdle ==
    /\ exoplanet_df = Pending
    /\ methods = Pending
    /\ search_planet = Pending
    /\ year_range = Pending
    /\ page_out = Pending
    /\ viz_df = Pending

NormIdle ==
    /\ resp = Pending
    /\ result = Pending
    /\ cleaned = Pending
    /\ search_out = Pending

SimIdle ==
    /\ planet_radius = Pending
    /\ orbital_period = Pending
    /\ impact_param = Pending
    /\ star_radius = Pending
    /\ inclination = Pending
    /\ light_curve = Pending

InitNorm ==
    /\ resp \in CatalogResponses \cup ApodReplies
    /\ result = Pending
    /\ cleaned = Pending
    /\ search_out = Pending
    /\ rng = FreshRng
    /\ SysIdle
    /\ FilterIdle
    /\ SimIdle

\* the catalog service writes one more row into the CSV body of its reply
ReplyRow ==
    /\ resp.kind = "csv"
    /\ result = Pending
    /\ cleaned = Pending
    /\ search_out = Pending
    /\ Len(resp.table.rows) < MaxRows
    /\ \E r \in RawRows(resp.table.cols) :
        resp' = [resp EXCEPT !.table.rows = Append(@, r)]
    /\ UNCHANGED <<result, cleaned, search_out, rng, sysVars, filterVars, simVars>>

\* st.session_state.exoplanet_data = fetcher.fetch_exoplanet_data(), cache cold
CallFetch ==
    /\ resp.kind # "apod"
    /\ result = Pending
    /\ result' = fetch_exoplanet_data(resp)
    /\ rng' = IF result'.prov = "fallback" THEN RngAfterSample ELSE rng
    /\ UNCHANGED <<resp, cleaned, search_out, sysVars, filterVars, simVars>>

\* _clean_data on the frame read from the reply
CallClean ==
    /\ resp.kind = "csv"
    /\ cleaned = Pending
    /\ cleaned' = clean_data(resp.table)
    /\ UNCHANGED <<resp, result, search_out, rng, sysVars, filterVars, simVars>>

\* st.session_state.apod_data = fetch_nasa_apod(), cache cold
CallApod ==
    /\ resp.kind = "apod"
    /\ result = Pending
    /\ result' = fetch_nasa_apod(resp.apod)
    /\ UNCHANGED <<resp, cleaned, search_out, rng, sysVars, filterVars, simVars>>

\* the Planet Search page, lines 949-953: a non-empty text and the button
CallSearch ==
    /\ resp.kind # "apod"
    /\ search_out = Pending
    /\ result = Pending
    /\ cleaned = Pending
    /\ Len(resp.table.rows) <= MaxSearchRows
    /\ \E n \in 1..MaxTerm : \E search_term \in [1..n -> TermChars] :
        search_out' = search_planet_directly(search_term, resp)
    /\ UNCHANGED <<resp, result, cleaned, rng, sysVars, filterVars, simVars>>

NextNorm == ReplyRow \/ CallFetch \/ CallClean \/ CallApod \/ CallSearch

SpecNorm == InitNorm /\ [][NextNorm]_vars

-----------------------------------------------------------------------------
(* Claims about the loading functions, checked under SpecNorm *)

\* the catalog request, or the normalizing of its table, fails
CatalogFails(rsp) ==
    \/ rsp.kind \in CatalogFailureKinds
    \/ rsp.kind = "csv" /\ (rsp.table.rows = <<>> \/ clean_data(rsp.table).raised)

\* C1: no failure of a remote call escapes the loading step: whatever the
\* catalog request does (connection error, timeout, non-2xx, unparsable or
\* empty body, zero rows, an exception while normalizing),
\* fetch_exoplanet_data raises nothing and returns the fallback sample; for
\* every failure of the daily-image request fetch_nasa_apod raises nothing
\* and returns None.
C1_NoFailureEscapes ==
    result # Pending =>
        /\ ~result.raised
        /\ (resp.kind # "apod" /\ CatalogFails(resp)) =>
                (result.prov = "fallback" /\ result.df = generate_sample_data)
        /\ (resp.kind = "apod" /\ resp.apod \in ApodFailureKinds) => result.val = None

\* a reply whose table makes the normalizer raise was loaded as the fallback
C1_Witness ==
    /\ resp.kind = "csv"
    /\ resp.table.rows # <<>>
    /\ clean_data(resp.table).raised
    /\ result # Pending
    /\ ~result.raised
    /\ result.prov = "fallback"

\* C2: when the catalog service answers 2xx with a parsable table of at least
\* one row (which the normalizer accepts), fetch_exoplanet_data delivers the
\* normalized remote table, not the fallback sample.
C2_RemoteDelivered ==
    (/\ result # Pending
     /\ resp.kind = "csv"
     /\ resp.table.rows # <<>>
     /\ ~clean_data(resp.table).raised)
        => (result.prov = "remote" /\ result.df = clean_data(resp.table).df)

\* pl_name and hostname are both present in a raw row
Present(row) ==
    /\ row.pl_name.k \notin {"nan", "absent"}
    /\ row.hostname.k \notin {"nan", "absent"}

\* the positions of the raw rows that have both, in input order
KeptIdx(rows) == SelectSeq([i \in 1..Len(rows) |-> i], LAMBDA i : Present(rows[i]))

NameHost(row) == <<row.pl_name, row.hostname>>

\* C9: the normalizer keeps a row if and only if pl_name and hostname are
\* both present, in input order, and drops no row because a numeric field or
\* the discovery year could not be coerced (a normalizer that raises keeps
\* no row).
C9_KeepsIffPresent ==
    cleaned # Pending =>
        LET idx == KeptIdx(resp.table.rows)
            kept == IF cleaned.raised THEN <<>> ELSE cleaned.df.rows
        IN  /\ Len(kept) = Len(idx)
            /\ \A j \in 1..Len(idx) :
                    NameHost(kept[j]) = NameHost(resp.table.rows[idx[j]])

\* what the claim expects in a numeric field and in disc_year
ExpectedRade(c) == IF c = Num(2) THEN Num(2) ELSE NaN

ExpectedYear(c) ==
    CASE c = Num(1995) -> 1995
      [] c = Str(<<"2", "0", "1", "4">>) -> 2014
      [] OTHER -> CurrentYear

-----------------------------------------------------------------------------
(* Claims about the direct search and the constructor, under SpecNorm *)

\* The token structure of an ADQL text: a string literal runs from a quote
\* to the next quote that is not doubled and counts as one token whatever it
\* holds; a literal left open at the end of the text is a token of its own.
RECURSIVE AdqlTokens(_, _, _)
AdqlTokens(q, i, inLit) ==
    IF i > Len(q) THEN (IF inLit THEN <<"<open literal>">> ELSE <<>>)
    ELSE IF ~inLit
    THEN IF q[i] = "'" THEN AdqlTokens(q, i + 1, TRUE)
         ELSE <<q[i]>> \o AdqlTokens(q, i + 1, FALSE)
    ELSE IF q[i] # "'" THEN AdqlTokens(q, i + 1, TRUE)
    ELSE IF i < Len(q) /\ q[i + 1] = "'" THEN AdqlTokens(q, i + 2, TRUE)
    ELSE <<"<literal>">> \o AdqlTokens(q, i + 1, FALSE)

\* C11: the search term is escaped before it is placed into the query text:
\* for every term, also one holding a single quote or a percent sign, the
\* query built by search_planet_directly keeps the term inside the two LIKE
\* string literals and has the token structure it has for a plain term.
C11_TermStaysInLiteral ==
    search_out # Pending =>
        AdqlTokens(search_out.query, 1, FALSE) = AdqlTokens(AdqlQuery(<<"a">>), 1, FALSE)

\* C19: the normalizer never fails: for every raw table, also an empty one
\* and one that lacks an expected column, _clean_data returns a table and
\* raises nothing.
C19_CleanNeverRaises ==
    cleaned # Pending => ~cleaned.raised

\* C20: a NASADataFetcher never has a url: whatever the remote service would
\* reply, fetch_exoplanet_data issues no GET and returns the fallback
\* sample, and search_planet_directly issues no GET and returns an empty
\* frame for every term.
C20_NoUrlNoRequest ==
    /\ (result # Pending /\ resp.kind # "apod") =>
            (~result.get /\ ~result.raised /\ result.prov = "fallback"
                /\ result.df = generate_sample_data)
    /\ search_out # Pending =>
            (~search_out.get /\ ~search_out.raised /\ search_out.df = EmptyFrame)

\* the service would have answered both calls with a table of one good row
C20_Witness ==
    /\ resp.kind = "csv"
    /\ Len(resp.table.rows) = 1
    /\ ~clean_data(resp.table).raised
    /\ clean_data(resp.table).df.rows # <<>>
    /\ result # Pending
    /\ result.prov = "fallback"
    /\ search_out # Pending
    /\ search_out.df = EmptyFrame

\* C15: every call of the fallback provider returns at least one record;
\* every record has a non-empty pl_name and hostname and a disc_year within
\* [1990, current year + 1]; the records span at least two discovery
\* methods and at least two discovery years.
C15_SampleWellFormed ==
    (result # Pending /\ resp.kind # "apod" /\ result.prov = "fallback") =>
        LET rows == result.df.rows
        IN  /\ Len(rows) >= 1
            /\ \A i \in 1..Len(rows) :
                    /\ rows[i].pl_name.k = "str" /\ rows[i].pl_name.s # <<>>
                    /\ rows[i].hostname.k = "str" /\ rows[i].hostname.s # <<>>
                    /\ rows[i].disc_year.k \in {"int", "num"}
                    /\ rows[i].disc_year.v >= 1990
                    /\ rows[i].disc_year.v <= CurrentYear + 1
            /\ Cardinality({rows[i].discoverymethod : i \in 1..Len(rows)}) >= 2
            /\ Cardinality({rows[i].disc_year : i \in 1..Len(rows)}) >= 2

\* the fallback provider was called because the catalog request timed out
C15_Witness ==
    /\ resp.kind = "timeout"
    /\ result # Pending
    /\ result.prov = "fallback"
    /\ Len(result.df.rows) = Len(sample_data)

-----------------------------------------------------------------------------
(* Spec: the dashboard.  Streamlit reruns the whole script, top to bottom, *)
(* for every interaction of a browser session.                             *)

Sessions == {"s1", "s2"}

MaxTicks == 2

\* @st.cache_data(ttl=3600) and @st.cache_data(ttl=86400)
CATALOG_TTL == 3600
APOD_TTL == 86400

NoKey == [k |-> "nokey"]
NoEntry == [k |-> "noentry"]

\* the replies the catalog service can give a script run
GoodTable ==
    [cols |-> AllCols,
     rows |-> << [pl_name |-> Str(<<"a">>), hostname |-> Str(<<"h">>),
                  discoverymethod |-> Str(<<"T">>), disc_year |-> Num(1995),
                  pl_rade |-> Num(2)] >>]

SysCatalogResponses ==
    {[kind |-> k, table |-> NoTable] : k \in CatalogFailureKinds}
        \cup {[kind |-> "csv", table |-> GoodTable],
              [kind |-> "csv", table |-> [cols |-> AllCols, rows |-> <<>>]]}

\* a store that never serves what it holds
CacheFreshNever(entry, ttl) == FALSE

\* a st.cache_data entry is served until its age reaches the ttl
CacheFresh(entry, ttl) == entry # NoEntry /\ now - entry.at < ttl

\* the value a call leaves in the store and hands to the caller; prov and
\* fetched_at are not part of the DataFrame: they record where and when the
\* value was made
Snapshot(out) == [df |-> out.df, prov |-> out.prov, fetched_at |-> now]

Init ==
    /\ now = 0
    /\ ticks = 0
    /\ cache_exo = NoEntry
    /\ cache_apod = NoEntry
    /\ session_state = [s \in Sessions |-> [exoplanet_data |-> NoKey, apod_data |-> NoKey]]
    /\ view = [s \in Sessions |-> [ran |-> FALSE, ran_at |-> 0, notices |-> {}, crashed |-> FALSE]]
    /\ http_gets = [catalog |-> 0, apod |-> 0]
    /\ rng = FreshRng
    /\ NormIdle
    /\ FilterIdle
    /\ SimIdle

\* time passes between interactions
Tick ==
    /\ ticks < MaxTicks
    /\ \E dt \in {CATALOG_TTL \div 2, APOD_TTL} : now' = now + dt
    /\ ticks' = ticks + 1
    /\ UNCHANGED <<cache_exo, cache_apod, session_state, view, http_gets,
                   normVars, filterVars, simVars, rng>>

\* the browser session ends and a new one starts with an empty session_state
NewSession(s) ==
    /\ session_state[s] # [exoplanet_data |-> NoKey, apod_data |-> NoKey]
    /\ session_state' = [session_state EXCEPT
                            ![s] = [exoplanet_data |-> NoKey, apod_data |-> NoKey]]
    /\ view' = [view EXCEPT ![s] = [ran |-> FALSE, ran_at |-> 0, notices |-> {}, crashed |-> FALSE]]
    /\ UNCHANGED <<now, ticks, cache_exo, cache_apod, http_gets, normVars, filterVars,
                   simVars, rng>>

\* lines 424-426: what the guarded call of the cached fetch_exoplanet_data does.
\* A hit serves the stored value and replays the st.* messages stored with it.
LoadCatalog(s, rsp) ==
    IF session_state[s].exoplanet_data # NoKey
    THEN [called |-> FALSE, raised |-> FALSE, value |-> session_state[s].exoplanet_data,
          entry |-> cache_exo, get |-> FALSE, msgs |-> {}]
    ELSE IF CacheFresh(cache_exo, CATALOG_TTL)
    THEN [called |-> TRUE, raised |-> FALSE, value |-> cache_exo.value,
          entry |-> cache_exo, get |-> FALSE, msgs |-> cache_exo.msgs]
    ELSE LET out == fetch_exoplanet_data(rsp)
         IN  IF out.raised
             THEN [called |-> TRUE, raised |-> TRUE, value |-> NoKey,
                   entry |-> cache_exo, get |-> out.get, msgs |-> {}]
             ELSE [called |-> TRUE, raised |-> FALSE, value |-> Snapshot(out),
                   entry |-> [value |-> Snapshot(out), at |-> now, msgs |-> out.msgs],
                   get |-> out.get, msgs |-> out.msgs]

\* lines 428-429: the guarded call of the cached fetch_nasa_apod
LoadApod(s, kind) ==
    IF session_state[s].apod_data # NoKey
    THEN [called |-> FALSE, raised |-> FALSE, value |-> session_state[s].apod_data,
          entry |-> cache_apod, get |-> FALSE, msgs |-> {}]
    ELSE IF CacheFresh(cache_apod, APOD_TTL)
    THEN [called |-> TRUE, raised |-> FALSE, value |-> cache_apod.value,
          entry |-> cache_apod, get |-> FALSE, msgs |-> cache_apod.msgs]
    ELSE LET out == fetch_nasa_apod(kind)
         IN  IF out.raised
             THEN [called |-> TRUE, raised |-> TRUE, value |-> NoKey,
                   entry |-> cache_apod, get |-> TRUE, msgs |-> {}]
             ELSE [called |-> TRUE, raised |-> FALSE,
                   value |-> [val |-> out.val, fetched_at |-> now],
                   entry |-> [value |-> [val |-> out.val, fetched_at |-> now],
                              at |-> now, msgs |-> out.msgs],
                   get |-> TRUE, msgs |-> out.msgs]

\* the replies that matter to a run: a service that gets no request gives none
CatalogAsked(s) ==
    session_state[s].exoplanet_data = NoKey /\ ~CacheFresh(cache_exo, CATALOG_TTL)

ApodAsked(s) ==
    session_state[s].apod_data = NoKey /\ ~CacheFresh(cache_apod, APOD_TTL)

\* one run of the script for session s (any page: the pages read exoplanet_df
\* and apod_data and assign nothing that outlives the run): the data loading
\* of lines 422-432, then the page.  An exception that escapes ends the run.
ScriptRun(s) ==
    \E rsp \in IF CatalogAsked(s) THEN SysCatalogResponses
               ELSE {[kind |-> "conn_error", table |-> NoTable]},
       kind \in IF ApodAsked(s) THEN ApodResponses ELSE {"image"} :
        \E exo \in {LoadCatalog(s, rsp)} :
        \E apod \in {IF exo.raised
                     THEN [called |-> FALSE, raised |-> FALSE,
                           value |-> session_state[s].apod_data,
                           entry |-> cache_apod, get |-> FALSE, msgs |-> {}]
                     ELSE LoadApod(s, kind)} :
            /\ cache_exo' = exo.entry
            /\ cache_apod' = apod.entry
            /\ session_state' = [session_state EXCEPT
                    ![s] = [exoplanet_data |-> exo.value, apod_data |-> apod.value]]
            /\ http_gets' = [catalog |-> http_gets.catalog + (IF exo.get THEN 1 ELSE 0),
                             apod |-> http_gets.apod + (IF apod.get THEN 1 ELSE 0)]
            /\ view' = [view EXCEPT
                    ![s] = [ran |-> TRUE, ran_at |-> now,
                            notices |-> exo.msgs \cup apod.msgs,
                            crashed |-> exo.raised \/ apod.raised]]
            /\ rng' = IF CatalogAsked(s) /\ ~exo.raised /\ exo.value.prov = "fallback"
                      THEN RngAfterSample ELSE rng
            /\ UNCHANGED <<now, ticks, normVars, filterVars, simVars>>

Next ==
    \/ Tick
    \/ \E s \in Sessions : NewSession(s)
    \/ \E s \in Sessions : ScriptRun(s)

Spec == Init /\ [][Next]_vars

-----------------------------------------------------------------------------
(* Claims about the dashboard, checked under Spec *)

\* the dataset a run of session s starts from: the one its session_state
\* holds, else the one the cache holds
HeldCatalog(s) ==
    IF session_state[s].exoplanet_data # NoKey THEN session_state[s].exoplanet_data
    ELSE IF cache_exo # NoEntry THEN cache_exo.value
    ELSE NoKey

HeldApod(s) ==
    IF session_state[s].apod_data # NoKey THEN session_state[s].apod_data
    ELSE IF cache_apod # NoEntry THEN cache_apod.value
    ELSE NoKey

\* C3: once the catalog is loaded, a script run within 3600 s of that load
\* gets the same dataset and sends no GET to the catalog service; likewise
\* the daily image within 86400 s.
C3_NoRefetchWithinTTL ==
    [][\A s \in Sessions : ScriptRun(s) =>
        /\ (HeldCatalog(s) # NoKey /\ now - HeldCatalog(s).fetched_at < CATALOG_TTL) =>
                /\ session_state'[s].exoplanet_data = HeldCatalog(s)
                /\ http_gets'.catalog = http_gets.catalog
        /\ (HeldApod(s) # NoKey /\ now - HeldApod(s).fetched_at < APOD_TTL) =>
                /\ session_state'[s].apod_data = HeldApod(s)
                /\ http_gets'.apod = http_gets.apod]_vars

\* a session ran the script after the load and within both TTLs, and a GET
\* for the daily image had gone out before
C3_Witness ==
    \E s \in Sessions :
        /\ view[s].ran
        /\ session_state[s].exoplanet_data # NoKey
        /\ session_state[s].apod_data # NoKey
        /\ view[s].ran_at > session_state[s].exoplanet_data.fetched_at
        /\ view[s].ran_at - session_state[s].exoplanet_data.fetched_at < CATALOG_TTL
        /\ view[s].ran_at > session_state[s].apod_data.fetched_at
        /\ http_gets.apod = 1

\* C4: the first script run after the held dataset's age exceeds the TTL runs
\* a new fetch cycle and replaces the dataset the dashboard uses, so no
\* dataset older than the TTL is served.
C4_StaleReplaced ==
    [][\A s \in Sessions :
        (/\ ScriptRun(s)
         /\ session_state[s].exoplanet_data # NoKey
         /\ now - session_state[s].exoplanet_data.fetched_at > CATALOG_TTL)
            => session_state'[s].exoplanet_data.fetched_at = now]_vars

\* C5: whenever the dataset a session holds came from the fallback provider,
\* what the run hands to the presentation layer says so: the frame carries a
\* provenance column or the run shows the sample-data notice.
C5_ProvenanceShown ==
    \A s \in Sessions :
        (/\ view[s].ran
         /\ session_state[s].exoplanet_data # NoKey
         /\ session_state[s].exoplanet_data.prov = "fallback")
            => \/ "provenance" \in session_state[s].exoplanet_data.df.cols
               \/ "info_sample" \in view[s].notices

\* C17: repeated calls of the fallback provider in one process return
\* identical record sequences (every call re-seeds the generator with 42
\* before it draws the jitter), whatever ran between the calls.
C17_SampleRepeatable ==
    \A s1 \in Sessions, s2 \in Sessions :
        (/\ session_state[s1].exoplanet_data # NoKey
         /\ session_state[s2].exoplanet_data # NoKey
         /\ session_state[s1].exoplanet_data.prov = "fallback"
         /\ session_state[s2].exoplanet_data.prov = "fallback")
            => session_state[s1].exoplanet_data.df = session_state[s2].exoplanet_data.df

\* two sessions hold samples made by two calls, the later one made with the
\* generator as the earlier call left it
C17_Witness ==
    /\ session_state["s1"].exoplanet_data # NoKey
    /\ session_state["s2"].exoplanet_data # NoKey
    /\ session_state["s1"].exoplanet_data.prov = "fallback"
    /\ session_state["s2"].exoplanet_data.prov = "fallback"
    /\ session_state["s1"].exoplanet_data.fetched_at
            # session_state["s2"].exoplanet_data.fetched_at
    /\ rng = [seeded |-> TRUE, seed |-> SEED, pos |-> 3 * Len(sample_data)]

-----------------------------------------------------------------------------
(* The Encyclopedia page: widgets and filter, lines 540-569 *)

UpperCase == <<"A", "B", "C", "D", "E", "F", "G", "H", "I", "J", "K", "L", "M",
               "N", "O", "P", "Q", "R", "S", "T", "U", "V", "W", "X", "Y", "Z">>
LowerCase == <<"a", "b", "c", "d", "e", "f", "g", "h", "i", "j", "k", "l", "m",
               "n", "o", "p", "q", "r", "s", "t", "u", "v", "w", "x", "y", "z">>

\* case folding of one character (re.IGNORECASE, case=False)
Lower(c) ==
    IF \E i \in 1..26 : UpperCase[i] = c
    THEN LowerCase[CHOOSE i \in 1..26 : UpperCase[i] = c]
    ELSE c

\* re.compile(pat): an opening parenthesis that is never closed is an error
RegexCompiles(pat) == \A i \in 1..Len(pat) : pat[i] # "("

\* the alternatives of a pattern: the pieces between the "|"
RECURSIVE SplitAlt(_)
SplitAlt(pat) ==
    IF \A i \in 1..Len(pat) : pat[i] # "|" THEN {pat}
    ELSE LET i == CHOOSE j \in 1..Len(pat) :
                    pat[j] = "|" /\ \A m \in 1..(j - 1) : pat[m] # "|"
         IN  {SubSeq(pat, 1, i - 1)} \cup SplitAlt(SubSeq(pat, i + 1, Len(pat)))

\* one pattern character against one character of the subject
AtomMatches(a, c) == a = "." \/ Lower(a) = Lower(c)

\* an alternative matches the subject at offset off (0-based)
MatchAt(alt, subj, off) ==
    /\ off + Len(alt) <= Len(subj)
    /\ \A i \in 1..Len(alt) : AtomMatches(alt[i], subj[off + i])

\* regex.search(subject) is not None
RegexSearch(pat, subj) ==
    \E alt \in SplitAlt(pat) : \E off \in 0..Len(subj) : MatchAt(alt, subj, off)

\* Series.str.contains(pat, case=False, na=False): regex=True is the default
StrContains(pat, cell) == cell.k = "str" /\ RegexSearch(pat, cell.s)

\* an initial value that starts after the oldest discoveries
DefaultYearRangeNarrow == <<2000, 2024>>

\* the slider's initial value, line 556
DefaultYearRange == <<1990, 2024>>

Years(df) == {df.rows[i].disc_year.v : i \in 1..Len(df.rows)}

MinOf(S) == CHOOSE x \in S : \A y \in S : x <= y
MaxOf(S) == CHOOSE x \in S : \A y \in S : x >= y

\* st.slider(label, min_value, max_value, value): the widget widens its
\* bounds to hold the value it is given
SliderBounds(df) ==
    <<MinOf(Years(df) \cup {DefaultYearRange[1]}), MaxOf(Years(df) \cup {DefaultYearRange[2]})>>

\* options=exoplanet_df['discoverymethod'].unique()
MethodOptions(df) == {df.rows[i].discoverymethod : i \in 1..Len(df.rows)}

\* A DataFrame method call: the frame it returns and the receiver after it.
\* exoplanet_df.copy(), line 559
copy(df) == [self |-> df, ret |-> df]

\* a dropna that removes the rows from its receiver
dropna_inplace(df, subset) ==
    LET kept == [df EXCEPT !.rows =
                    SelectSeq(@, LAMBDA r : \A c \in subset : r[c].k # "nan")]
    IN  [self |-> kept, ret |-> kept]

\* exoplanet_df.dropna(subset=[...]), lines 631, 644, 668: inplace is False
dropna(df, subset) ==
    [self |-> df,
     ret |-> [df EXCEPT !.rows =
                SelectSeq(@, LAMBDA r : \A c \in subset : r[c].k # "nan")]]

\* the dropna subsets of the charts, over the columns the model carries
VizSubsets == {{"pl_rade"}}

PageResult(shown, raised, rows) == [shown |-> shown, raised |-> raised, rows |-> rows]

\* lines 559-567; lines 540 and 569 around them
Encyclopedia(df, M, text, yr) ==
    IF df.rows = <<>> THEN PageResult(FALSE, FALSE, <<>>)
    ELSE LET f0 == df.rows
             f1 == IF M # {} THEN SelectSeq(f0, LAMBDA r : r.discoverymethod \in M) ELSE f0
             f2 == IF text # <<>>
                   THEN SelectSeq(f1, LAMBDA r : StrContains(text, r.pl_name))
                   ELSE f1
             f3 == SelectSeq(f2, LAMBDA r : /\ r.disc_year.v >= yr[1]
                                            /\ r.disc_year.v <= yr[2])
         IN  IF text # <<>> /\ ~RegexCompiles(text)
             THEN PageResult(TRUE, TRUE, <<>>)
             ELSE PageResult(TRUE, FALSE, f3)

-----------------------------------------------------------------------------
(* SpecFilter: the page applied to bounded datasets and widget inputs *)

MaxRecs == 2
MaxText == 2

\* the records a dataset delivered by the cache is made of: every pair of
\* name, method and year values occurs in one of them
FilterRecord(n, m, y) ==
    [pl_name |-> Str(n), hostname |-> Str(<<"h">>), discoverymethod |-> Str(m),
     disc_year |-> IntC(y), pl_rade |-> Num(2)]

FilterRecords ==
    {FilterRecord(<<"A", "b">>, <<"T">>, 1995),
     FilterRecord(<<"A", "b">>, <<"R">>, CurrentYear),
     FilterRecord(<<"b">>, <<"T">>, CurrentYear),
     [FilterRecord(<<"b">>, <<"R">>, 1995) EXCEPT !.pl_rade = NaN]}

\* what the user can type
TextChars == {"a", ".", "|", "("}

\* the years the user drags the slider's ends to
SliderStops(df) ==
    {y \in {DefaultYearRange[1], DefaultYearRange[2], CurrentYear} :
        SliderBounds(df)[1] <= y /\ y <= SliderBounds(df)[2]}

InitFilter ==
    /\ exoplanet_df = [cols |-> AllCols, rows |-> <<>>]
    /\ methods = {}
    /\ search_planet = <<>>
    /\ year_range = DefaultYearRange
    /\ page_out = Pending
    /\ viz_df = Pending
    /\ rng = FreshRng
    /\ SysIdle
    /\ NormIdle
    /\ SimIdle

\* the dataset the cache delivers gets one more record
AddRecord ==
    /\ page_out = Pending
    /\ viz_df = Pending
    /\ Len(exoplanet_df.rows) < MaxRecs
    /\ \E r \in FilterRecords :
        exoplanet_df' = [exoplanet_df EXCEPT !.rows = Append(@, r)]
    /\ UNCHANGED <<methods, search_planet, year_range, page_out, viz_df,
                   sysVars, normVars, simVars, rng>>

\* the dataset is the one the fallback provider returns (lines 86-89, 426)
LoadFallback ==
    /\ page_out = Pending
    /\ viz_df = Pending
    /\ exoplanet_df.rows = <<>>
    /\ exoplanet_df' = generate_sample_data
    /\ rng' = RngAfterSample
    /\ UNCHANGED <<methods, search_planet, year_range, page_out, viz_df,
                   sysVars, normVars, simVars>>

\* the user opens the page: the first run, every widget at its default
OpenPage ==
    /\ page_out = Pending
    /\ page_out' = Encyclopedia(exoplanet_df, methods, search_planet, year_range)
    /\ exoplanet_df' = copy(exoplanet_df).self
    /\ UNCHANGED <<methods, search_planet, year_range, viz_df,
                   sysVars, normVars, simVars, rng>>

\* the user changes the multiselect: a rerun
SetMethods ==
    /\ page_out # Pending
    /\ page_out.shown
    /\ \E M \in SUBSET MethodOptions(exoplanet_df) :
        /\ M # methods
        /\ methods' = M
        /\ page_out' = Encyclopedia(exoplanet_df, M, search_planet, year_range)
    /\ exoplanet_df' = copy(exoplanet_df).self
    /\ UNCHANGED <<search_planet, year_range, viz_df, sysVars, normVars, simVars, rng>>

\* the user submits a text one character longer or shorter: a rerun
SetSearch ==
    /\ page_out # Pending
    /\ page_out.shown
    /\ \E text \in {Append(search_planet, c) : c \in TextChars}
                    \cup {SubSeq(search_planet, 1, Len(search_planet) - 1)} :
        /\ text # search_planet
        /\ Len(text) <= MaxText
        /\ search_planet' = text
        /\ page_out' = Encyclopedia(exoplanet_df, methods, text, year_range)
    /\ exoplanet_df' = copy(exoplanet_df).self
    /\ UNCHANGED <<methods, year_range, viz_df, sysVars, normVars, simVars, rng>>

\* the user drags the slider: a rerun
SetYearRange ==
    /\ page_out # Pending
    /\ page_out.shown
    /\ \E y0 \in SliderStops(exoplanet_df), y1 \in SliderStops(exoplanet_df) :
        /\ y0 <= y1
        /\ <<y0, y1>> # year_range
        /\ year_range' = <<y0, y1>>
        /\ page_out' = Encyclopedia(exoplanet_df, methods, search_planet, <<y0, y1>>)
    /\ exoplanet_df' = copy(exoplanet_df).self
    /\ UNCHANGED <<methods, search_planet, viz_df, sysVars, normVars, simVars, rng>>

\* the user views a chart of the Advanced Visualizations page, lines 630-669:
\* viz_df = exoplanet_df.dropna(subset=[...]).copy()
ViewViz ==
    /\ exoplanet_df.rows # <<>>
    /\ \E subset \in VizSubsets :
        /\ viz_df' = copy(dropna(exoplanet_df, subset).ret).ret
        /\ exoplanet_df' = dropna(exoplanet_df, subset).self
    /\ viz_df' # viz_df
    /\ UNCHANGED <<methods, search_planet, year_range, page_out,
                   sysVars, normVars, simVars, rng>>

NextFilter ==
    \/ AddRecord \/ LoadFallback \/ OpenPage \/ SetMethods \/ SetSearch
    \/ SetYearRange \/ ViewViz

SpecFilter == InitFilter /\ [][NextFilter]_vars

-----------------------------------------------------------------------------
(* Claims about the Encyclopedia filter, checked under SpecFilter *)

\* text occurs in subj as a literal substring, ignoring case
LiteralContains(text, subj) ==
    \E off \in 0..Len(subj) :
        /\ off + Len(text) <= Len(subj)
        /\ \A i \in 1..Len(text) : Lower(subj[off + i]) = Lower(text[i])

\* the three predicates of the claim, for the widgets' current values
PassesAll(r) ==
    /\ methods = {} \/ r.discoverymethod \in methods
    /\ search_planet = <<>> \/ LiteralContains(search_planet, r.pl_name.s)
    /\ year_range[1] <= r.disc_year.v /\ r.disc_year.v <= year_range[2]

PageShown == page_out # Pending /\ page_out.shown

\* C6: the filter result is the sub-sequence of the dataset, in its order, of
\* exactly the records with (M empty or method in M) and (text empty or
\* pl_name contains text literally, ignoring case) and y0 <= disc_year <= y1.
C6_FilterIsConjunction ==
    PageShown =>
        /\ ~page_out.raised
        /\ page_out.rows = SelectSeq(exoplanet_df.rows, PassesAll)

\* C7: with every filter input at its default (no method, empty text, the
\* year range the page starts with) the result is the whole dataset, also
\* for records whose disc_year is the current year.
C7_DefaultsPassThrough ==
    (/\ PageShown
     /\ methods = {}
     /\ search_planet = <<>>
     /\ year_range = DefaultYearRange)
        => page_out.rows = exoplanet_df.rows

\* one filter input was narrowed by the step, the other two kept
Narrowed ==
    \/ /\ methods' \subseteq methods /\ methods' # {} /\ methods' # methods
       /\ UNCHANGED <<search_planet, year_range>>
    \/ /\ year_range[1] <= year_range'[1] /\ year_range'[2] <= year_range[2]
       /\ year_range' # year_range
       /\ UNCHANGED <<methods, search_planet>>
    \/ /\ Len(search_planet') > Len(search_planet)
       /\ \E off \in 0..Len(search_planet') :
            /\ off + Len(search_planet) <= Len(search_planet')
            /\ SubSeq(search_planet', off + 1, off + Len(search_planet)) = search_planet
       /\ UNCHANGED <<methods, year_range>>

\* C8: narrowing the method set to a non-empty subset, the year range to a
\* sub-range, or the text to a longer text containing it never increases the
\* number of records in the result.
C8_Monotone ==
    [][(PageShown /\ UNCHANGED exoplanet_df /\ Narrowed)
            => Len(page_out'.rows) <= Len(page_out.rows)]_vars

\* a is b with some of its elements left out, the others in b's order
RECURSIVE IsSubSeqOf(_, _)
IsSubSeqOf(a, b) ==
    IF a = <<>> THEN TRUE
    ELSE IF b = <<>> THEN FALSE
    ELSE IF Head(a) = Head(b) THEN IsSubSeqOf(Tail(a), Tail(b))
    ELSE IsSubSeqOf(a, Tail(b))

\* C21: the Encyclopedia name filter completes without error for every
\* non-empty search text the user can type, also one holding a character
\* such as "(", and yields a (possibly empty) sub-sequence of the dataset.
C21_SearchNeverErrors ==
    (PageShown /\ search_planet # <<>>) =>
        /\ ~page_out.raised
        /\ IsSubSeqOf(page_out.rows, exoplanet_df.rows)

\* the Encyclopedia page has been opened on the fallback sample and no
\* widget has been touched
FallbackPageOpened ==
    /\ exoplanet_df = generate_sample_data
    /\ page_out # Pending
    /\ methods = {}
    /\ search_planet = <<>>
    /\ year_range = DefaultYearRange

\* C16: the fallback sample is sufficient for the downstream views: opening
\* the Encyclopedia page on it completes without error, and the page's
\* initial year range (1990, 2024) lies within the year slider's bounds
\* [min disc_year, max disc_year] of that dataset.
C16_RangeWithinDataBounds ==
    FallbackPageOpened =>
        /\ page_out.shown /\ ~page_out.raised
        /\ MinOf(Years(exoplanet_df)) <= DefaultYearRange[1]
        /\ DefaultYearRange[2] <= MaxOf(Years(exoplanet_df))

\* C16 as amended: opening the Encyclopedia page on the fallback sample
\* completes without error; the sample's years [min disc_year, max
\* disc_year] lie within the initial year range (1990, 2024), to which the
\* slider widens its bounds, and every record of the sample is displayed.
C16_FallbackPageOpens ==
    FallbackPageOpened =>
        /\ page_out.shown /\ ~page_out.raised
        /\ DefaultYearRange[1] <= MinOf(Years(exoplanet_df))
        /\ MaxOf(Years(exoplanet_df)) <= DefaultYearRange[2]
        /\ SliderBounds(exoplanet_df) = DefaultYearRange
        /\ page_out.rows = exoplanet_df.rows

\* the page shows the ten records of the sample
C16_Witness ==
    /\ FallbackPageOpened
    /\ page_out.shown
    /\ Len(page_out.rows) = Len(sample_data)

\* C18: no user interaction mutates the held dataset in place: after every
\* page view, filter change and search the dataset stored for the dashboard
\* has the records, values and order it had; the filter and the charts work
\* on derived copies.
C18_HeldDatasetUnchanged ==
    [][(OpenPage \/ SetMethods \/ SetSearch \/ SetYearRange \/ ViewViz)
            => exoplanet_df' = exoplanet_df]_vars

\* a chart and a filtered table were both derived from the dataset and both
\* hold fewer records than it
C18_Witness ==
    /\ viz_df # Pending
    /\ page_out # Pending
    /\ page_out.shown /\ ~page_out.raised
    /\ Len(viz_df.rows) < Len(exoplanet_df.rows)
    /\ Len(page_out.rows) < Len(exoplanet_df.rows)
    /\ search_planet # <<>>

-----------------------------------------------------------------------------
(* simulate_transit_light_curve, lines 189-207 *)

Abs(n) == IF n < 0 THEN 0 - n ELSE n

RECURSIVE Gcd(_, _)
Gcd(a, b) == IF b = 0 THEN a ELSE Gcd(b, a % b)

\* a rational in lowest terms with a positive denominator
Rat(n, d) ==
    LET g == Gcd(Abs(n), Abs(d))
        s == IF d < 0 THEN 0 - 1 ELSE 1
    IN  <<(s * n) \div g, (s * d) \div g>>

RatSub(a, b) == Rat(a[1] * b[2] - b[1] * a[2], a[2] * b[2])
RatMul(a, b) == Rat(a[1] * b[1], a[2] * b[2])
RatDiv(a, b) == Rat(a[1] * b[2], a[2] * b[1])
RatNeg(a) == <<0 - a[1], a[2]>>
RatInt(n) == <<n, 1>>

\* np.linspace(0, orbital_period, 1000)
NumSamples == 1000

linspace(start, stop, num) ==
    [i \in 1..num |->
        RatSub(RatMul(RatInt(i - 1), RatDiv(RatSub(stop, start), RatInt(num - 1))),
               RatNeg(start))]

\* a curve whose depth shrinks with the impact parameter
simulate_with_impact(pr, period, b, sr, inc) ==
    LET time == linspace(RatInt(0), period, NumSamples)
        depth == RatMul(RatMul(RatDiv(pr, sr), RatDiv(pr, sr)), RatSub(RatInt(1), b))
        center == RatDiv(period, RatInt(2))
        duration == RatDiv(RatMul(period, sr), pr)
    IN  [time |-> time, depth |-> depth,
         expo |-> [i \in 1..NumSamples |->
                    RatMul(RatDiv(RatMul(RatNeg(RatSub(time[i], center)), RatInt(2)),
                                  RatDiv(duration, RatInt(4))),
                           RatInt(2))]]

\* lines 203-207.  np.pi and np.exp are kept symbolic: transit_duration is
\* duration / pi, and the flux sample i is 1 - depth * exp(pi * expo[i]),
\* expo[i] being -(time-transit_center)*2/(transit_duration/4)*2 over pi.
\* The impact parameter and the inclination are read and not used.
simulate(pr, period, b, sr, inc) ==
    LET time == linspace(RatInt(0), period, NumSamples)
        depth == RatMul(RatDiv(pr, sr), RatDiv(pr, sr))
        center == RatDiv(period, RatInt(2))
        duration == RatDiv(RatMul(period, sr), pr)
    IN  [time |-> time, depth |-> depth,
         expo |-> [i \in 1..NumSamples |->
                    RatMul(RatDiv(RatMul(RatNeg(RatSub(time[i], center)), RatInt(2)),
                                  RatDiv(duration, RatInt(4))),
                           RatInt(2))]]

\* the values the user leaves or drags each slider to, lines 195-201:
\* an end of its range or its initial value
PlanetRadiusStops == {<<1, 10>>, <<1, 1>>, <<20, 1>>}
OrbitalPeriodStops == {<<10, 1>>, <<365, 1>>}
ImpactParamStops == {<<0, 1>>, <<3, 10>>, <<1, 1>>}
StarRadiusStops == {<<1, 10>>, <<1, 1>>, <<10, 1>>}
InclinationStops == {<<179, 2>>, <<90, 1>>}

InitSim ==
    /\ planet_radius = <<1, 1>>
    /\ orbital_period = <<10, 1>>
    /\ impact_param = <<3, 10>>
    /\ star_radius = <<1, 1>>
    /\ inclination = <<179, 2>>
    /\ light_curve = Pending
    /\ rng = FreshRng
    /\ SysIdle
    /\ NormIdle
    /\ FilterIdle

\* the user opens the simulator: the first run, sliders at their initial values
OpenSim ==
    /\ light_curve = Pending
    /\ light_curve' = simulate(planet_radius, orbital_period, impact_param,
                               star_radius, inclination)
    /\ UNCHANGED <<planet_radius, orbital_period, impact_param, star_radius,
                   inclination, rng, sysVars, normVars, filterVars>>

SetPlanetRadius ==
    /\ light_curve # Pending
    /\ \E v \in PlanetRadiusStops \ {planet_radius} :
        /\ planet_radius' = v
        /\ light_curve' = simulate(v, orbital_period, impact_param, star_radius,
                                   inclination)
    /\ UNCHANGED <<orbital_period, impact_param, star_radius, inclination, rng,
                   sysVars, normVars, filterVars>>

SetOrbitalPeriod ==
    /\ light_curve # Pending
    /\ \E v \in OrbitalPeriodStops \ {orbital_period} :
        /\ orbital_period' = v
        /\ light_curve' = simulate(planet_radius, v, impact_param, star_radius,
                                   inclination)
    /\ UNCHANGED <<planet_radius, impact_param, star_radius, inclination, rng,
                   sysVars, normVars, filterVars>>

SetImpactParam ==
    /\ light_curve # Pending
    /\ \E v \in ImpactParamStops \ {impact_param} :
        /\ impact_param' = v
        /\ light_curve' = simulate(planet_radius, orbital_period, v, star_radius,
                                   inclination)
    /\ UNCHANGED <<planet_radius, orbital_period, star_radius, inclination, rng,
                   sysVars, normVars, filterVars>>

SetStarRadius ==
    /\ light_curve # Pending
    /\ \E v \in StarRadiusStops \ {star_radius} :
        /\ star_radius' = v
        /\ light_curve' = simulate(planet_radius, orbital_period, impact_param, v,
                                   inclination)
    /\ UNCHANGED <<planet_radius, orbital_period, impact_param, inclination, rng,
                   sysVars, normVars, filterVars>>

SetInclination ==
    /\ light_curve # Pending
    /\ \E v \in InclinationStops \ {inclination} :
        /\ inclination' = v
        /\ light_curve' = simulate(planet_radius, orbital_period, impact_param,
                                   star_radius, v)
    /\ UNCHANGED <<planet_radius, orbital_period, impact_param, star_radius, rng,
                   sysVars, normVars, filterVars>>

NextSim ==
    \/ OpenSim \/ SetPlanetRadius \/ SetOrbitalPeriod \/ SetImpactParam
    \/ SetStarRadius \/ SetInclination

SpecSim == InitSim /\ [][NextSim]_vars

-----------------------------------------------------------------------------
(* Claims about the simulator, checked under SpecSim *)

RatLeq(a, b) == a[1] * b[2] <= b[1] * a[2]

\* flux sample i of curve lc is at most flux sample j: exp is increasing,
\* so 1 - depth * exp(pi * x) falls as x grows
FluxLeq(lc, i, j) == lc.depth[1] = 0 \/ RatLeq(lc.expo[j], lc.expo[i])

\* the samples nearest t = orbital_period / 2: within half a sampling step
CentreSamples(lc, period) ==
    {i \in 1..NumSamples :
        LET off == RatSub(lc.time[i], RatDiv(period, RatInt(2)))
            half == RatDiv(period, RatInt(2 * (NumSamples - 1)))
        IN  RatLeq(off, half) /\ RatLeq(RatNeg(half), off)}

\* C12: for positive radii and period the flux sequence has its minimum at
\* the transit centre t = orbital_period / 2, the minimum is 1 - (planet
\* radius / star radius)^2, and every sample is at least that and at most 1.
C12_MinimumAtCentre ==
    light_curve # Pending =>
        /\ \A i \in 1..NumSamples :
            \* 1 - depth <= flux[i]: the exponent is not positive
            /\ (light_curve.depth[1] = 0 \/ light_curve.expo[i][1] <= 0)
            \* flux[i] <= 1: the depth is not negative
            /\ light_curve.depth[1] >= 0
        /\ \A c \in CentreSamples(light_curve, orbital_period) :
            \A i \in 1..NumSamples : FluxLeq(light_curve, c, i)

\* C14: two simulations that agree on planet radius, orbital period and
\* star radius give identical (time, flux) sequences whatever the impact
\* parameter and the inclination are.
C14_NonInterference ==
    [][(/\ light_curve # Pending
        /\ planet_radius' = planet_radius
        /\ orbital_period' = orbital_period
        /\ star_radius' = star_radius) => light_curve' = light_curve]_vars

\* a curve computed with both unused sliders dragged off their initial values
C14_Witness ==
    /\ light_curve # Pending
    /\ impact_param = <<1, 1>>
    /\ inclination = <<90, 1>>
    /\ light_curve = simulate(planet_radius, orbital_period, <<3, 10>>, star_radius,
                              <<179, 2>>)

====
